---- MODULE Spec2Model ----
(***************************************************************************)
(* A model of cardlib's Deck (src/cardlib/deck.py) and Card                *)
(* (src/cardlib/card.py).                                                  *)
(*                                                                         *)
(* A deck keeps its cards in a Python list, self._cards, stored bottom     *)
(* first: _cards[0] is the bottom card and _cards[-1] the top card.  The   *)
(* model keeps that orientation: a list is a TLA+ sequence whose element 1 *)
(* is the bottom card and whose last element is the top card.              *)
(*                                                                         *)
(* Python lists are objects: two decks may hold the same list.  The model  *)
(* has a small heap of list cells; a deck is the cell its _cards names     *)
(* (0 when _cards is None, or when the deck does not exist).               *)
(***************************************************************************)
EXTENDS Integers, Sequences, FiniteSets, TLC

\* ---------------------------------------------------------------- bounds
MaxLen == 3         \* longest deck built from an explicit card list, or that add is given
MaxItems == 1       \* most cards handed to one add
MaxOther == 2       \* most cards of the second deck, b
MaxListed == 2      \* most entries of a list given to - or -=
MaxShuffle == 3     \* longest list whose every permutation shuffle may produce
MaxHands == 2       \* largest num_hands given to deal, a deal of the whole deck aside
MaxEach == 2        \* largest cards_each given to deal, a deal of the whole deck aside
MaxSplit == 5       \* longest deck split is given, and the largest n but one

\* ------------------------------------------------------------ card.py
Card(rank, suit) == [rank |-> rank, suit |-> suit]

Suits == {"SPADES", "HEARTS", "DIAMONDS", "CLUBS", "RED", "BLACK"}

Ranks == {"2", "3", "4", "5", "6", "7", "8", "9", "10", "J", "Q", "K", "A", "JOKER"}

\* Default English alphabetical suit order
ENGLISH_ALPH_ORDER == <<"CLUBS", "DIAMONDS", "HEARTS", "SPADES", "BLACK", "RED">>

\* suit_order=None: the suits are equal
NoOrder == <<"None">>

\* Ranks from A-K
UP_RANKS == <<"A", "2", "3", "4", "5", "6", "7", "8", "9", "10", "J", "Q", "K">>

\* ------------------------------------------------------ sequence helpers
Reverse(s) == [i \in 1..Len(s) |-> s[Len(s) + 1 - i]]

\* Python's l[lo:hi] for 0 <= lo, hi (0-based, half-open, clamped to the list)
Slice(l, lo, hi) ==
    LET h == IF hi > Len(l) THEN Len(l) ELSE hi
    IN  IF lo >= h THEN <<>> ELSE SubSeq(l, lo + 1, h)

\* [f(x) for x in outer for y in inner]: the rows of an outer loop, concatenated
RECURSIVE Flatten(_)
Flatten(rows) ==
    IF rows = <<>> THEN <<>> ELSE Head(rows) \o Flatten(Tail(rows))

Range(f) == {f[i] : i \in DOMAIN f}

SeqsUpTo(S, n) == UNION {[1..k -> S] : k \in 0..n}

\* ------------------------------------------------------------- the heap
Cells == 1..3
SelfCell == 1       \* the list deck a was given when it was built
OtherCell == 2      \* the list of the second deck, b
FreshCell == 3      \* the list object an expression has just created

VARIABLES
    heap,            \* heap[c]: the cards of list object c, bottom first
    a,               \* the cell a._cards names; 0 when a._cards is None
    b,               \* the cell b._cards names; 0 when there is no deck b
    r,               \* the cell of the deck the last operator returned; 0 when none
    include_jokers,  \* a.include_jokers
    suit_order,      \* a.suit_order: a tuple of suits, or NoOrder for None
    op,              \* the last call and its arguments
    err,             \* the exception the last call raised, or "none"
    pre,             \* a's list before the last call (<<>> when it was None)
    preNone,         \* whether a._cards was None before the last call
    drawn,           \* the list draw returned
    hands,           \* the list of hands deal returned
    subdecks,        \* the _cards of the decks split returned
    ret              \* the index index returned

vars == <<heap, a, b, r, include_jokers, suit_order, op, err, pre, preNone, drawn, hands,
          subdecks, ret>>

\* The record of a call: its name and the arguments it was given.  A field a call
\* does not use keeps the value it has here.
\*   n, m      draw's n; deal's num_hands and cards_each; split's n
\*   strict    the strict argument
\*   jokers, shuffle, empty   the constructor's arguments; reset's shuffle
\*   items     add's flattened cards; the cards from_cards was given
\*   bad       add was given something that is neither a Card nor an iterable of them
\*   position  add's position
\*   kind, x   the shape of the right operand of - and -=, and what it lists
\*   other     deck b's list before the call
\*   restores  add was given the list the draw just before it returned; >> was
\*             given the n of the << just before it
\*   orig      a's list before that draw, or before that <<
\*   ascending sort's ascending
\*   again     sort(ascending=False) follows a sort(ascending=False)
\*   fresh     the call is the first on a deck built by Deck(False, shuffle=False)
\*   index     the index given to deck[index], del deck[index] and pop
\*   card      the value assigned by deck[index] = card; the card index looks for
\*   start, end   index's start and end; end is <<>> for None and <<e>> for e
\*   deep      copy's deep
\*   on        the deck called, "a" or "r", when both are kept
NoOp == [name |-> "", n |-> 0, m |-> 0, strict |-> FALSE, index |-> 0,
         card |-> [rank |-> "", suit |-> ""], start |-> 0, end |-> <<>>,
         deep |-> FALSE, on |-> "", ascending |-> FALSE, again |-> FALSE,
         jokers |-> FALSE, shuffle |-> FALSE, empty |-> FALSE,
         items |-> <<>>, bad |-> FALSE, position |-> "", kind |-> "", x |-> <<>>,
         other |-> <<>>, restores |-> FALSE, orig |-> <<>>, fresh |-> FALSE]

EmptyHeap == [c \in Cells |-> <<>>]

\* The heap with only the cells in live kept: a list no deck names is gone.
Collect(h, live) == [c \in Cells |-> IF c \in live THEN h[c] ELSE <<>>]


\* Deck.__iter__: reversed(self._cards), the cards top first
TopToBottom(l) == Reverse(l)

\* Deck._build_cards: the list it assigns to self._cards
BuildCards(jokers) ==
    Flatten([s \in 1..2 |-> [i \in 1..13 |-> Card(UP_RANKS[i], <<"HEARTS", "CLUBS">>[s])]])
    \o Flatten([s \in 1..2 |->
                  [i \in 1..13 |-> Card(Reverse(UP_RANKS)[i], <<"DIAMONDS", "SPADES">>[s])]])
    \o (IF jokers THEN <<Card("JOKER", "BLACK"), Card("JOKER", "RED")>> ELSE <<>>)

\* A value of self._cards: None, or a list
NoneValue == [none |-> TRUE, cards |-> <<>>]
ListValue(l) == [none |-> FALSE, cards |-> l]

\* What the call self._build_cards() evaluates to: the method assigns the list to
\* self._cards and has no return statement, so the call's value is None.
BuildCardsCall(jokers) == NoneValue

\* The cards the model builds small decks from: two share a rank, two share a suit.
SampleCards == {Card("A", "HEARTS"), Card("A", "SPADES"), Card("K", "SPADES")}

\* random.shuffle(l): the orders it may leave l in.  Every permutation of a list
\* of at most MaxShuffle cards; of a longer one, two of its permutations.
Orders(l) ==
    LET n == Len(l)
        P == {p \in [1..n -> 1..n] : \A i, j \in 1..n : p[i] = p[j] => i = j}
    IN  {[i \in 1..n |-> l[p[i]]] : p \in P}

shuffle(l) ==
    IF Len(l) <= MaxShuffle THEN Orders(l) ELSE {l, Reverse(l)}

Min(x, y) == IF x < y THEN x ELSE y

\* [self._cards.pop() for _ in range(k)]: the list left and the cards popped
RECURSIVE PopN(_, _)
PopN(l, k) ==
    IF k = 0 THEN [cards |-> l, out |-> <<>>]
    ELSE LET p == PopN(SubSeq(l, 1, Len(l) - 1), k - 1)
         IN  [cards |-> p.cards, out |-> <<l[Len(l)]>> \o p.out]

\* draw with the strict test left out: it draws what there is
draw_unchecked(v, n, strict) ==
    IF n < 0 THEN [err |-> "ValueError", cards |-> v.cards, out |-> <<>>]
    ELSE IF v.none THEN [err |-> "TypeError", cards |-> v.cards, out |-> <<>>]
    ELSE LET p == PopN(v.cards, Min(n, Len(v.cards)))
         IN  [err |-> "none", cards |-> p.cards, out |-> p.out]

\* Deck.draw on a deck whose _cards is v
draw(v, n, strict) ==
    IF n < 0 THEN [err |-> "ValueError", cards |-> v.cards, out |-> <<>>]
    ELSE IF v.none THEN [err |-> "TypeError", cards |-> v.cards, out |-> <<>>]
    ELSE IF strict /\ n > Len(v.cards)
         THEN [err |-> "ValueError", cards |-> v.cards, out |-> <<>>]
    ELSE LET to_draw == Min(n, Len(v.cards))
             p == PopN(v.cards, to_draw)
         IN  [err |-> "none", cards |-> p.cards, out |-> p.out]

\* The inner loop dealing to the hands last to first
RECURSIVE DealRoundBackwards(_, _, _, _)
DealRoundBackwards(l, hs, j, num_hands) ==
    IF j >= num_hands \/ l = <<>> THEN [cards |-> l, hands |-> hs]
    ELSE DealRoundBackwards(SubSeq(l, 1, Len(l) - 1),
                            [hs EXCEPT ![num_hands - j] = Append(@, l[Len(l)])],
                            j + 1, num_hands)

\* The inner loop of Deck.deal, from hand j on: a card to each hand in turn, until
\* the deck has run out (the break).
RECURSIVE DealRound(_, _, _, _)
DealRound(l, hs, j, num_hands) ==
    IF j >= num_hands \/ l = <<>> THEN [cards |-> l, hands |-> hs]
    ELSE DealRound(SubSeq(l, 1, Len(l) - 1),
                   [hs EXCEPT ![j + 1] = Append(@, l[Len(l)])],
                   j + 1, num_hands)

\* The outer loop of Deck.deal, from round i on: cards_each rounds, run out or not
RECURSIVE DealLoop(_, _, _, _, _)
DealLoop(l, hs, i, num_hands, cards_each) ==
    IF i >= cards_each THEN [cards |-> l, hands |-> hs]
    ELSE LET d == DealRound(l, hs, 0, num_hands)
         IN  DealLoop(d.cards, d.hands, i + 1, num_hands, cards_each)

\* Deck.deal on a deck whose _cards is v
deal(v, num_hands, cards_each, strict) ==
    IF num_hands < 1 THEN [err |-> "ValueError", cards |-> v.cards, hands |-> <<>>]
    ELSE IF cards_each < 0 THEN [err |-> "ValueError", cards |-> v.cards, hands |-> <<>>]
    ELSE IF strict /\ v.none THEN [err |-> "TypeError", cards |-> v.cards, hands |-> <<>>]
    ELSE IF strict /\ num_hands * cards_each > Len(v.cards)
         THEN [err |-> "ValueError", cards |-> v.cards, hands |-> <<>>]
    ELSE LET d == DealLoop(v.cards, [h \in 1..num_hands |-> <<>>], 0,
                           num_hands, cards_each)
         IN  [err |-> "none", cards |-> d.cards, hands |-> d.hands]

\* Python's round(p / q) for p >= 0 and q > 0: to the nearest integer, a tie to the
\* even one.  The quotient is taken exactly; the float the code computes, i * (len / n),
\* rounds to the same integer for every deck of fewer than 25 cards.
Round(p, q) ==
    LET f == p \div q
        twice == 2 * (p % q)
    IN  IF twice < q THEN f
        ELSE IF twice > q THEN f + 1
        ELSE IF f % 2 = 0 THEN f ELSE f + 1

\* The bounds of Deck.split's slices without the rounding: i whole groups
SplitBoundTruncated(len, n, strict, i) == i * (len \div n)

\* round(i * k) in Deck.split, where k is len / n, or int(len / n) when strict
SplitBound(len, n, strict, i) ==
    IF strict THEN i * (len \div n) ELSE Round(i * len, n)

\* Deck.from_cards: the _cards of the deck it builds from the list cards
from_cards(cards, no_copy) == IF no_copy THEN cards ELSE Reverse(cards)

\* Deck.split cutting its groups from the top of the deck, the first one topmost
split_from_top(v, n, strict) ==
    IF n < 2 THEN [err |-> "ValueError", decks |-> <<>>]
    ELSE IF v.none THEN [err |-> "TypeError", decks |-> <<>>]
    ELSE IF n > Len(v.cards) THEN [err |-> "ValueError", decks |-> <<>>]
    ELSE [err |-> "none",
          decks |-> [i \in 1..n |->
                       Reverse(Slice(Reverse(v.cards),
                                     SplitBound(Len(v.cards), n, strict, i - 1),
                                     SplitBound(Len(v.cards), n, strict, i)))]]

\* Deck.split on a deck whose _cards is v: the _cards of the decks it returns
split(v, n, strict) ==
    IF n < 2 THEN [err |-> "ValueError", decks |-> <<>>]
    ELSE IF v.none THEN [err |-> "TypeError", decks |-> <<>>]
    ELSE IF n > Len(v.cards) THEN [err |-> "ValueError", decks |-> <<>>]
    ELSE [err |-> "none",
          decks |-> [i \in 1..n |->
                       from_cards(Slice(v.cards,
                                        SplitBound(Len(v.cards), n, strict, i - 1),
                                        SplitBound(Len(v.cards), n, strict, i)),
                                  TRUE)]]

\* list.insert(idx, c) for 0 <= idx <= len(l)
Insert(l, idx, c) == SubSeq(l, 1, idx) \o <<c>> \o SubSeq(l, idx + 1, Len(l))

\* The loop of add's position == 'random': each card goes in at an index
\* random.randint(0, len(self._cards)) picks.  The lists the loop may end with.
RECURSIVE RandomInserts(_, _)
RandomInserts(l, flat) ==
    IF flat = <<>> THEN {l}
    ELSE UNION {RandomInserts(Insert(l, idx, Head(flat)), Tail(flat)) : idx \in 0..Len(l)}

\* Deck.add with position == 'top' putting the first card given on top
add_first_on_top(v, flat, bad, position) ==
    IF bad \/ position # "top" \/ v.none THEN {[err |-> "TypeError", value |-> v]}
    ELSE {[err |-> "none", value |-> ListValue(v.cards \o Reverse(flat))]}

\* Deck.add on a deck whose _cards is v, given the flattened cards flat (bad: an
\* argument that is no Card): the outcomes it may have
add(v, flat, bad, position) ==
    IF bad THEN {[err |-> "TypeError", value |-> v]}
    ELSE IF position = "bottom" THEN
        IF v.none THEN {[err |-> "AttributeError", value |-> v]}
        ELSE LET extended == v.cards \o flat
             IN  {[err |-> "none", value |-> ListValue(Reverse(flat) \o extended)]}
    ELSE IF position = "top" THEN
        IF v.none THEN {[err |-> "AttributeError", value |-> v]}
        ELSE {[err |-> "none", value |-> ListValue(v.cards \o flat)]}
    ELSE IF position = "random" THEN
        IF flat = <<>> THEN {[err |-> "none", value |-> v]}
        ELSE IF v.none THEN {[err |-> "TypeError", value |-> v]}
        ELSE {[err |-> "none", value |-> ListValue(l)] : l \in RandomInserts(v.cards, flat)}
    ELSE {[err |-> "ValueError", value |-> v]}

\* Deck.copy on a deck whose _cards is v: the _cards of the deck it returns.
\* copy.deepcopy(self._cards) is a list of cards equal to those of self._cards.
copy(v, deep) ==
    IF v.none THEN [err |-> "TypeError", cards |-> <<>>]
    ELSE [err |-> "none", cards |-> from_cards(v.cards, FALSE)]

\* ------------------------------------------------------- << and >>
\* A bound i of a Python slice of a list of len elements, as the number of
\* elements before it: a negative i counts from the end of the list.
SliceBound(len, i) ==
    IF i < 0 THEN (IF len + i < 0 THEN 0 ELSE len + i)
    ELSE IF i > len THEN len ELSE i

\* l[lo:] and l[:hi]
SliceFrom(l, lo) == SubSeq(l, SliceBound(Len(l), lo) + 1, Len(l))
SliceTo(l, hi) == SubSeq(l, 1, SliceBound(Len(l), hi))

\* Deck.__lshift__ moving the bottom n cards to the top
lshift_bottom_up(v, n) ==
    IF v.none THEN [err |-> "TypeError", value |-> v]
    ELSE IF Len(v.cards) = 0 THEN [err |-> "ZeroDivisionError", value |-> v]
    ELSE LET k == n % Len(v.cards)
         IN  [err |-> "none",
              value |-> ListValue(SliceFrom(v.cards, k) \o SliceTo(v.cards, k))]

\* Deck.__lshift__ on a deck whose _cards is v: the value of its _cards afterwards
lshift(v, n) ==
    IF v.none THEN [err |-> "TypeError", value |-> v]
    ELSE IF Len(v.cards) = 0 THEN [err |-> "ZeroDivisionError", value |-> v]
    ELSE LET k == n % Len(v.cards)
         IN  [err |-> "none",
              value |-> ListValue(SliceFrom(v.cards, -k) \o SliceTo(v.cards, -k))]

\* Deck.__rshift__
rshift(v, n) ==
    IF v.none THEN [err |-> "TypeError", value |-> v]
    ELSE IF Len(v.cards) = 0 THEN [err |-> "ZeroDivisionError", value |-> v]
    ELSE LET k == n % Len(v.cards)
         IN  [err |-> "none",
              value |-> ListValue(SliceFrom(v.cards, k) \o SliceTo(v.cards, k))]

\* ------------------------------------------------------- compare and sort
\* Default rank-to-value mapping
DEFAULT_RANK_VALUES ==
    [rank \in Ranks |->
        CASE rank = "J" -> 11 [] rank = "Q" -> 12 [] rank = "K" -> 13
          [] rank = "A" -> 14 [] rank = "JOKER" -> 15
          [] OTHER -> CHOOSE v \in 2..10 : UP_RANKS[v] = rank]

\* Deck.value: self.rank_values.get(card.rank, 0), with the default rank_values
value(card) ==
    IF card.rank \in DOMAIN DEFAULT_RANK_VALUES THEN DEFAULT_RANK_VALUES[card.rank] ELSE 0

\* self._suit_index, the map Deck.__init__ builds from suit_order: each suit of the
\* order to its index, counted from 0; an empty map when suit_order is None
suit_index(order) ==
    IF order = NoOrder THEN <<>>
    ELSE [suit \in Range(order) |-> (CHOOSE i \in DOMAIN order : order[i] = suit) - 1]

\* Deck.compare of a deck whose suit_order is order: -1, 0 or 1
compare(order, card1, card2) ==
    LET v1 == value(card1)
        v2 == value(card2)
        idx == suit_index(order)
    IN  IF v1 # v2 THEN (IF v1 > v2 THEN 1 ELSE -1)
        ELSE IF order = NoOrder THEN 0
        ELSE IF card1.suit \notin DOMAIN idx \/ card2.suit \notin DOMAIN idx THEN 0
        ELSE IF idx[card1.suit] < idx[card2.suit] THEN -1
        ELSE IF idx[card1.suit] > idx[card2.suit] THEN 1
        ELSE 0

\* Deck._cmp_key: (rank_val, suit_index); "if self.suit_order" is false of None and
\* of an empty tuple
cmp_key(order, card) ==
    LET idx == suit_index(order)
    IN  <<value(card),
          IF order = NoOrder \/ order = <<>> THEN 0
          ELSE IF card.suit \in DOMAIN idx THEN idx[card.suit] ELSE -1>>

\* The order of Python's tuples: k < h
KeyLess(k, h) == k[1] < h[1] \/ (k[1] = h[1] /\ k[2] < h[2])

\* list.sort is stable: the card x goes into the sorted list s behind every card
\* that is not to come after it, so behind the cards with its key
InsertSorted(s, x, order, reverse) ==
    LET after(i) == IF reverse THEN KeyLess(cmp_key(order, s[i]), cmp_key(order, x))
                    ELSE KeyLess(cmp_key(order, x), cmp_key(order, s[i]))
        later == {i \in DOMAIN s : after(i)}
        at == IF later = {} THEN Len(s) + 1
              ELSE CHOOSE i \in later : \A j \in later : i <= j
    IN  SubSeq(s, 1, at - 1) \o <<x>> \o SubSeq(s, at, Len(s))

\* list.sort(reverse=reverse, key=self._cmp_key) of the list l
RECURSIVE ListSort(_, _, _)
ListSort(l, order, reverse) ==
    IF l = <<>> THEN <<>>
    ELSE InsertSorted(ListSort(SubSeq(l, 1, Len(l) - 1), order, reverse),
                      l[Len(l)], order, reverse)

\* Deck.sort handing list.sort the negation of ascending
sort_other_way(v, order, ascending) ==
    IF v.none THEN [err |-> "AttributeError", value |-> v]
    ELSE [err |-> "none", value |-> ListValue(ListSort(v.cards, order, ~ascending))]

\* Deck.sort on a deck whose _cards is v: the value of its _cards afterwards
sort(v, order, ascending) ==
    IF v.none THEN [err |-> "AttributeError", value |-> v]
    ELSE [err |-> "none", value |-> ListValue(ListSort(v.cards, order, ascending))]

\* ------------------------------------------------------- index access
\* l[i] for a Python list of length len: the place of the element, counted from 1,
\* or 0 when the index is out of range (IndexError).  A negative i counts from the
\* end of the list.
ListIndex(len, i) ==
    IF 0 <= i /\ i < len THEN i + 1
    ELSE IF -len <= i /\ i < 0 THEN len + i + 1
    ELSE 0

\* Deck._reverse_index for a deck of len cards
reverse_index(len, key) ==
    LET normalized == IF key < 0 THEN key + len ELSE key
    IN  len - 1 - normalized

\* The list l without the element at place at
Without(l, at) == SubSeq(l, 1, at - 1) \o SubSeq(l, at + 1, Len(l))

\* Deck.__getitem__ with an integer key
getitem(v, key) ==
    IF v.none THEN [err |-> "TypeError", out |-> <<>>]
    ELSE LET at == ListIndex(Len(v.cards), reverse_index(Len(v.cards), key))
         IN  IF at = 0 THEN [err |-> "IndexError", out |-> <<>>]
             ELSE [err |-> "none", out |-> <<v.cards[at]>>]

\* Deck.__setitem__ with an integer key (bad: the value is no Card)
setitem(v, key, card, bad) ==
    IF bad THEN [err |-> "TypeError", value |-> v]
    ELSE IF v.none THEN [err |-> "TypeError", value |-> v]
    ELSE LET at == ListIndex(Len(v.cards), reverse_index(Len(v.cards), key))
         IN  IF at = 0 THEN [err |-> "IndexError", value |-> v]
             ELSE [err |-> "none", value |-> ListValue([v.cards EXCEPT ![at] = card])]

\* Deck.__delitem__ with an integer key
delitem(v, key) ==
    IF v.none THEN [err |-> "TypeError", value |-> v]
    ELSE LET at == ListIndex(Len(v.cards), reverse_index(Len(v.cards), key))
         IN  IF at = 0 THEN [err |-> "IndexError", value |-> v]
             ELSE [err |-> "none", value |-> ListValue(Without(v.cards, at))]

\* Deck.pop: self._cards.pop is looked up before the index is turned round
pop(v, key) ==
    IF v.none THEN [err |-> "AttributeError", value |-> v, out |-> <<>>]
    ELSE LET at == ListIndex(Len(v.cards), reverse_index(Len(v.cards), key))
         IN  IF at = 0 THEN [err |-> "IndexError", value |-> v, out |-> <<>>]
             ELSE [err |-> "none", value |-> ListValue(Without(v.cards, at)),
                   out |-> <<v.cards[at]>>]

\* for i in range(i, stop, -1): if self._cards[i] == card: return i
RECURSIVE IndexLoop(_, _, _, _)
IndexLoop(l, card, i, stop) ==
    IF i <= stop THEN [err |-> "ValueError", index |-> 0]
    ELSE LET at == ListIndex(Len(l), i)
         IN  IF at = 0 THEN [err |-> "IndexError", index |-> 0]
             ELSE IF l[at] = card THEN [err |-> "none", index |-> i]
             ELSE IndexLoop(l, card, i - 1, stop)

\* Deck.index (bad: card is no Card; end: <<>> for None, <<e>> for the integer e)
index(v, card, bad, start, end) ==
    IF bad THEN [err |-> "TypeError", index |-> 0]
    ELSE IF v.none THEN [err |-> "TypeError", index |-> 0]
    ELSE LET len == Len(v.cards)
             e == IF end = <<>> THEN len ELSE end[1]
         IN  IndexLoop(v.cards, card, reverse_index(len, start), reverse_index(len, e))

\* ------------------------------------------------- the operand of - and -=
\* What a - x and a -= x may be given: a Card, a Rank, a Suit, a Deck, or a list of
\* Cards, Ranks and Suits.  An entry is tagged with its type: a Rank, a Suit and a
\* Card are never equal to one another.
CardItem(c) == [type |-> "Card", rank |-> c.rank, suit |-> c.suit]
RankItem(rank) == [type |-> "Rank", rank |-> rank, suit |-> ""]
SuitItem(suit) == [type |-> "Suit", rank |-> "", suit |-> suit]

\* isinstance(other, Iterable): a Deck has __iter__ and a list is iterable; a Card
\* and a member of the enums Rank and Suit are not.
IsIterable(kind) == kind \in {"Deck", "list"}

\* other.cards for a Deck other: Deck has the attribute _cards and none named cards.
DeckCards(l) == [err |-> "AttributeError", items |-> <<>>]

\* to_remove in Deck.__sub__, for an operand of shape kind listing items
sub_to_remove(kind, items, other) ==
    IF kind = "Card" THEN [err |-> "none", set |-> {items[1]}]
    ELSE IF kind = "Deck" THEN
        LET cards == DeckCards(other)
        IN  [err |-> cards.err, set |-> Range(cards.items)]
    ELSE IF IsIterable(kind) THEN [err |-> "none", set |-> Range(items)]
    ELSE [err |-> "TypeError", set |-> {}]

\* to_remove in Deck.__isub__
isub_to_remove(kind, items, other) ==
    IF kind = "Deck" THEN
        LET cards == DeckCards(other)
        IN  [err |-> cards.err, set |-> Range(cards.items)]
    ELSE IF IsIterable(kind) THEN [err |-> "none", set |-> Range(items)]
    ELSE [err |-> "none", set |-> {items[1]}]

\* [c for c in self._cards if not (c in to_remove or c.suit in to_remove
\*                                 or c.rank in to_remove)]
Kept(l, to_remove) ==
    LET keep(c) == ~ \/ CardItem(c) \in to_remove
                     \/ SuitItem(c.suit) \in to_remove
                     \/ RankItem(c.rank) \in to_remove
    IN  SelectSeq(l, keep)

\* Deck.__sub__ on a deck whose _cards is v: the _cards of the deck it returns
sub(v, kind, items, other) ==
    LET t == sub_to_remove(kind, items, other)
    IN  IF t.err # "none" THEN [err |-> t.err, cards |-> <<>>]
        ELSE IF v.none THEN [err |-> "TypeError", cards |-> <<>>]
        ELSE [err |-> "none", cards |-> from_cards(Kept(v.cards, t.set), TRUE)]

\* Deck.__isub__ on a deck whose _cards is v: the value of its _cards afterwards
isub(v, kind, items, other) ==
    LET t == isub_to_remove(kind, items, other)
    IN  IF t.err # "none" THEN [err |-> t.err, value |-> v]
        ELSE IF v.none THEN [err |-> "TypeError", value |-> v]
        ELSE [err |-> "none", value |-> ListValue(Kept(v.cards, t.set))]

\* other._cards + self._cards in Deck.__add__, handed to from_cards
deck_add(v, other) ==
    IF v.none THEN [err |-> "TypeError", cards |-> <<>>]
    ELSE [err |-> "none", cards |-> from_cards(other \o v.cards, TRUE)]

\* Deck.__init__: what it leaves in self._cards, or the error it raises
init(jokers, shuf, empty) ==
    LET v == IF empty THEN ListValue(<<>>) ELSE BuildCardsCall(jokers)
    IN  IF ~shuf THEN {[err |-> "none", value |-> v]}
        ELSE IF v.none THEN {[err |-> "TypeError", value |-> v]}
        ELSE {[err |-> "none", value |-> ListValue(l)] : l \in shuffle(v.cards)}

\* Deck.reset: self._build_cards(), then the shuffle
reset(jokers, shuf) ==
    IF shuf THEN {ListValue(l) : l \in shuffle(BuildCards(jokers))}
    ELSE {ListValue(BuildCards(jokers))}

\* ------------------------------------------------------------ the inputs
\* The entries a list given to - or -= is made of
SampleItems == {CardItem(Card("A", "HEARTS")), CardItem(Card("K", "SPADES")),
                RankItem("A"), SuitItem("SPADES")}

\* A full suit: the cards_each of a deal of a whole deck to four hands
FullSuit == Len(UP_RANKS)

\* ------------------------------------------------------------ the state
SelfValue == IF a = 0 THEN NoneValue ELSE ListValue(heap[a])

OtherCards == IF b = 0 THEN <<>> ELSE heap[b]

\* The call o ended with error e ("none": it returned) and these results.
ReturnedAll(o, e, d, h, s, i) ==
    /\ op' = o
    /\ err' = e
    /\ drawn' = d
    /\ hands' = h
    /\ subdecks' = s
    /\ ret' = i
    /\ pre' = SelfValue.cards
    /\ preNone' = (a = 0)

\* The same, of a call that returns no index
Returned(o, e, d, h, s) == ReturnedAll(o, e, d, h, s, 0)

\* Deck a's _cards is v after the call.  The decks b and r, if any, are let go.
SelfBecomes(v) ==
    /\ a' = IF v.none THEN 0 ELSE SelfCell
    /\ heap' = [c \in Cells |-> IF c = SelfCell /\ ~v.none THEN v.cards ELSE <<>>]
    /\ b' = 0
    /\ r' = 0

\* The first call on a deck that Deck(include_jokers=False, shuffle=False) built
Fresh ==
    /\ op.name = "__init__"
    /\ err = "none"
    /\ ~op.jokers /\ ~op.shuffle /\ ~op.empty

\* A deck short enough for the calls that the model bounds by length
Short == Len(SelfValue.cards) <= 2 * MaxLen

InitDeck(longest) ==
    /\ \/ \E jokers, shuf, empty \in BOOLEAN :
            \E out \in init(jokers, shuf, empty) :
                /\ out.err = "none"
                /\ a = (IF out.value.none THEN 0 ELSE SelfCell)
                /\ heap = [EmptyHeap EXCEPT ![SelfCell] = out.value.cards]
                /\ include_jokers = jokers
                /\ op = [NoOp EXCEPT !.name = "__init__", !.jokers = jokers,
                                      !.shuffle = shuf, !.empty = empty]
       \/ \E cards \in SeqsUpTo(SampleCards, longest) :
                /\ a = SelfCell
                /\ heap = [EmptyHeap EXCEPT ![SelfCell] = from_cards(cards, FALSE)]
                /\ include_jokers = FALSE
                /\ op = [NoOp EXCEPT !.name = "from_cards", !.items = cards]
    /\ b = 0
    /\ r = 0
    /\ err = "none"
    /\ pre = <<>>
    /\ preNone = FALSE
    /\ drawn = <<>>
    /\ hands = <<>>
    /\ subdecks = <<>>
    /\ ret = 0

\* A deck built with the default suit_order
InitWith(longest) == InitDeck(longest) /\ suit_order = ENGLISH_ALPH_ORDER

\* The deck a after its construction: by Deck(...), or by Deck.from_cards from a
\* list of at most MaxLen cards
Init == InitWith(MaxLen)

\* a = Deck(include_jokers=jokers, shuffle=shuf, empty=empty); when the constructor
\* raises, a names the deck it named before.
New(jokers, shuf, empty) ==
    \E out \in init(jokers, shuf, empty) :
        /\ SelfBecomes(IF out.err = "none" THEN out.value ELSE SelfValue)
        /\ include_jokers' = (IF out.err = "none" THEN jokers ELSE include_jokers)
        /\ suit_order' = (IF out.err = "none" THEN ENGLISH_ALPH_ORDER ELSE suit_order)
        /\ Returned([NoOp EXCEPT !.name = "__init__", !.jokers = jokers,
                                  !.shuffle = shuf, !.empty = empty],
                    out.err, <<>>, <<>>, <<>>)

\* a.reset(shuffle=shuf)
Reset(shuf) ==
    \E v \in reset(include_jokers, shuf) :
        /\ SelfBecomes(v)
        /\ UNCHANGED <<include_jokers, suit_order>>
        /\ Returned([NoOp EXCEPT !.name = "reset", !.shuffle = shuf],
                    "none", <<>>, <<>>, <<>>)

\* a.shuffle(): random.shuffle(self._cards), of a deck of at most MaxShuffle cards
Shuffle ==
    /\ Len(SelfValue.cards) <= MaxShuffle
    /\ \E l \in (IF a = 0 THEN {<<>>} ELSE shuffle(heap[a])) :
           SelfBecomes(IF a = 0 THEN NoneValue ELSE ListValue(l))
    /\ UNCHANGED <<include_jokers, suit_order>>
    /\ Returned([NoOp EXCEPT !.name = "shuffle"],
                IF a = 0 THEN "TypeError" ELSE "none", <<>>, <<>>, <<>>)

\* a.draw(n, strict)
Draw(n, strict) ==
    LET out == draw(SelfValue, n, strict)
    IN  /\ SelfBecomes([SelfValue EXCEPT !.cards = out.cards])
        /\ UNCHANGED <<include_jokers, suit_order>>
        /\ Returned([NoOp EXCEPT !.name = "draw", !.n = n, !.strict = strict,
                                  !.fresh = Fresh],
                    out.err, out.out, <<>>, <<>>)

\* a.deal(num_hands, cards_each, strict)
Deal(num_hands, cards_each, strict) ==
    LET out == deal(SelfValue, num_hands, cards_each, strict)
    IN  /\ SelfBecomes([SelfValue EXCEPT !.cards = out.cards])
        /\ UNCHANGED <<include_jokers, suit_order>>
        /\ Returned([NoOp EXCEPT !.name = "deal", !.n = num_hands, !.m = cards_each,
                                  !.strict = strict],
                    out.err, <<>>, out.hands, <<>>)

\* a.split(n, strict)
Split(n, strict) ==
    LET out == split(SelfValue, n, strict)
    IN  /\ SelfBecomes(SelfValue)
        /\ UNCHANGED <<include_jokers, suit_order>>
        /\ Returned([NoOp EXCEPT !.name = "split", !.n = n, !.strict = strict],
                    out.err, <<>>, <<>>, out.decks)

\* a.add(*items, position=position); items may be the list the last draw returned.
Add(flat, bad, position) ==
    /\ Len(SelfValue.cards) + Len(flat) <= MaxLen
    /\ bad => (flat = <<>> /\ position = "top")
    /\ position = "middle" => flat = <<>>
    /\ \E out \in add(SelfValue, flat, bad, position) :
        LET restores == op.name = "draw" /\ err = "none" /\ flat = drawn
        IN  /\ SelfBecomes(out.value)
            /\ UNCHANGED <<include_jokers, suit_order>>
            /\ Returned([NoOp EXCEPT !.name = "add", !.items = flat, !.bad = bad,
                                      !.position = position, !.restores = restores,
                                      !.n = IF restores THEN op.n ELSE 0,
                                      !.orig = IF restores THEN pre ELSE <<>>],
                        out.err, <<>>, <<>>, <<>>)

\* An expression that builds a list (a concatenation, a slice, a comprehension)
\* yields a new list object: the cell it is in.
NewList == FreshCell

\* The right operands of - and -=: a Card, a Rank, a Suit, a list of them, deck b
Operands ==
    {[kind |-> i.type, items |-> <<i>>] : i \in SampleItems}
    \cup {[kind |-> "list", items |-> l] : l \in SeqsUpTo(SampleItems, MaxListed)}
    \cup (IF b = 0 THEN {}
          ELSE {[kind |-> "Deck",
                 items |-> [i \in 1..Len(heap[b]) |-> CardItem(TopToBottom(heap[b])[i])]]})

\* b = Deck.from_cards(cards)
OtherFromCards(cards) ==
    /\ a' = a
    /\ b' = OtherCell
    /\ r' = 0
    /\ heap' = [Collect(heap, {a}) EXCEPT ![OtherCell] = from_cards(cards, FALSE)]
    /\ UNCHANGED <<include_jokers, suit_order>>
    /\ Returned([NoOp EXCEPT !.name = "b = from_cards", !.items = cards],
                "none", <<>>, <<>>, <<>>)

\* r = a + b
DeckAdd ==
    /\ b # 0
    /\ LET out == deck_add(SelfValue, heap[b])
       IN  /\ a' = a
           /\ b' = b
           /\ r' = (IF out.err = "none" THEN NewList ELSE 0)
           /\ heap' = (IF out.err = "none"
                         THEN [Collect(heap, {a, b}) EXCEPT ![NewList] = out.cards]
                         ELSE Collect(heap, {a, b}))
           /\ UNCHANGED <<include_jokers, suit_order>>
           /\ Returned([NoOp EXCEPT !.name = "__add__", !.other = heap[b]],
                       out.err, <<>>, <<>>, <<>>)

\* r = a - x
DeckSub(x) ==
    /\ Short
    /\ LET out == sub(SelfValue, x.kind, x.items, OtherCards)
           live == IF x.kind = "Deck" THEN {a, b} ELSE {a}
       IN  /\ a' = a
           /\ b' = (IF x.kind = "Deck" THEN b ELSE 0)
           /\ r' = (IF out.err = "none" THEN NewList ELSE 0)
           /\ heap' = (IF out.err = "none"
                         THEN [Collect(heap, live) EXCEPT ![NewList] = out.cards]
                         ELSE Collect(heap, live))
           /\ UNCHANGED <<include_jokers, suit_order>>
           /\ Returned([NoOp EXCEPT !.name = "__sub__", !.kind = x.kind, !.x = x.items,
                                     !.other = OtherCards],
                       out.err, <<>>, <<>>, <<>>)

\* a -= x
DeckISub(x) ==
    /\ Short
    /\ LET out == isub(SelfValue, x.kind, x.items, OtherCards)
       IN  /\ SelfBecomes(out.value)
           /\ UNCHANGED <<include_jokers, suit_order>>
           /\ Returned([NoOp EXCEPT !.name = "__isub__", !.kind = x.kind, !.x = x.items,
                                     !.other = OtherCards],
                       out.err, <<>>, <<>>, <<>>)

\* r.draw(n, strict=False), on the deck the last operator returned
ResultDraw(n) ==
    /\ r # 0
    /\ op.name # "r.draw"
    /\ LET out == draw(ListValue(heap[r]), n, FALSE)
       IN  /\ heap' = [heap EXCEPT ![r] = out.cards]
           /\ UNCHANGED <<a, b, r, include_jokers, suit_order>>
           /\ Returned([NoOp EXCEPT !.name = "r.draw", !.n = n, !.other = OtherCards],
                       out.err, out.out, <<>>, <<>>)

\* a[index]; the card it returns is kept in drawn
GetItem(key) ==
    LET out == getitem(SelfValue, key)
    IN  /\ SelfBecomes(SelfValue)
        /\ UNCHANGED <<include_jokers, suit_order>>
        /\ Returned([NoOp EXCEPT !.name = "__getitem__", !.index = key],
                    out.err, out.out, <<>>, <<>>)

\* a[index] = card
SetItem(key, card, bad) ==
    LET out == setitem(SelfValue, key, card, bad)
    IN  /\ SelfBecomes(out.value)
        /\ UNCHANGED <<include_jokers, suit_order>>
        /\ Returned([NoOp EXCEPT !.name = "__setitem__", !.index = key,
                                  !.card = card, !.bad = bad],
                    out.err, <<>>, <<>>, <<>>)

\* del a[index]
DelItem(key) ==
    LET out == delitem(SelfValue, key)
    IN  /\ SelfBecomes(out.value)
        /\ UNCHANGED <<include_jokers, suit_order>>
        /\ Returned([NoOp EXCEPT !.name = "__delitem__", !.index = key],
                    out.err, <<>>, <<>>, <<>>)

\* a.pop(index); the card it returns is kept in drawn
Pop(key) ==
    LET out == pop(SelfValue, key)
    IN  /\ SelfBecomes(out.value)
        /\ UNCHANGED <<include_jokers, suit_order>>
        /\ Returned([NoOp EXCEPT !.name = "pop", !.index = key],
                    out.err, out.out, <<>>, <<>>)

\* a.sort(ascending)
Sort(ascending) ==
    LET out == sort(SelfValue, suit_order, ascending)
        again == /\ ~ascending
                 /\ op.name = "sort" /\ ~op.ascending /\ err = "none"
    IN  /\ SelfBecomes(out.value)
        /\ UNCHANGED <<include_jokers, suit_order>>
        /\ Returned([NoOp EXCEPT !.name = "sort", !.ascending = ascending,
                                  !.again = again],
                    out.err, <<>>, <<>>, <<>>)

\* The suit orders decks are built with: the default, None, an empty tuple, and
\* two that leave suits out
SuitOrders == {ENGLISH_ALPH_ORDER, NoOrder, <<>>, <<"SPADES", "HEARTS">>, <<"SPADES">>}

\* a << n
LShift(n) ==
    LET out == lshift(SelfValue, n)
    IN  /\ SelfBecomes(out.value)
        /\ UNCHANGED <<include_jokers, suit_order>>
        /\ Returned([NoOp EXCEPT !.name = "__lshift__", !.n = n],
                    out.err, <<>>, <<>>, <<>>)

\* a >> n; it may follow an a << n with the same n
RShift(n) ==
    LET out == rshift(SelfValue, n)
        restores == op.name = "__lshift__" /\ err = "none" /\ op.n = n
    IN  /\ SelfBecomes(out.value)
        /\ UNCHANGED <<include_jokers, suit_order>>
        /\ Returned([NoOp EXCEPT !.name = "__rshift__", !.n = n,
                                  !.restores = restores,
                                  !.orig = IF restores THEN pre ELSE <<>>],
                    out.err, <<>>, <<>>, <<>>)

\* The n given to << and >>: from below 0 to twice the length of the longest deck
Shifts == -1..(2 * MaxLen)

\* r = a.copy(deep)
Copy(deep) ==
    LET out == copy(SelfValue, deep)
    IN  /\ a' = a
        /\ b' = 0
        /\ r' = (IF out.err = "none" THEN NewList ELSE 0)
        /\ heap' = (IF out.err = "none"
                      THEN [Collect(heap, {a}) EXCEPT ![NewList] = out.cards]
                      ELSE Collect(heap, {a}))
        /\ UNCHANGED <<include_jokers, suit_order>>
        /\ Returned([NoOp EXCEPT !.name = "copy", !.deep = deep],
                    out.err, <<>>, <<>>, <<>>)

\* The deck a or r by name, and the other one of the two
Named(on) == IF on = "a" THEN a ELSE r
Beside(on) == IF on = "a" THEN r ELSE a

\* d.draw(n, strict=False) for d the deck a or its copy r, the first call after
\* the copy; other is the list of the deck not called
DrawBeside(on, n) ==
    /\ op.name = "copy" /\ err = "none"
    /\ LET out == draw(ListValue(heap[Named(on)]), n, FALSE)
       IN  /\ heap' = [heap EXCEPT ![Named(on)] = out.cards]
           /\ UNCHANGED <<a, b, r, include_jokers, suit_order>>
           /\ Returned([NoOp EXCEPT !.name = "draw", !.on = on, !.n = n,
                                     !.other = heap[Beside(on)]],
                       out.err, out.out, <<>>, <<>>)

\* d.add(card, position='top') for d the deck a or its copy r, the first call
\* after the copy
AddBeside(on, card) ==
    /\ op.name = "copy" /\ err = "none"
    /\ Len(heap[Named(on)]) < MaxLen
    /\ \E out \in add(ListValue(heap[Named(on)]), <<card>>, FALSE, "top") :
           /\ heap' = [heap EXCEPT ![Named(on)] = out.value.cards]
           /\ UNCHANGED <<a, b, r, include_jokers, suit_order>>
           /\ Returned([NoOp EXCEPT !.name = "add", !.on = on, !.items = <<card>>,
                                     !.position = "top", !.other = heap[Beside(on)]],
                       out.err, <<>>, <<>>, <<>>)

\* a.index(card, start, end)
Index(card, bad, start, end) ==
    LET out == index(SelfValue, card, bad, start, end)
    IN  /\ bad => (start = 0 /\ end = <<>>)
        /\ SelfBecomes(SelfValue)
        /\ UNCHANGED <<include_jokers, suit_order>>
        /\ ReturnedAll([NoOp EXCEPT !.name = "index", !.card = card, !.bad = bad,
                                     !.start = start, !.end = end],
                       out.err, <<>>, <<>>, <<>>, out.index)

\* The indexes given: from below -len to 2 * len and above, for every deck built
Indexes == (-(MaxLen + 2))..(2 * MaxLen + 1)

\* The arguments deal is given: small ones, and the deal of a whole 52-card deck,
\* a full suit to each of as many hands as the deck has suits.
DealArgs ==
    ((0..MaxHands) \X (-1..MaxEach))
    \cup {<<Len(BuildCards(FALSE)) \div FullSuit, FullSuit>>}

\* Construction, reset, shuffle, draw and deal
Next ==
    \/ \E jokers, shuf, empty \in BOOLEAN : New(jokers, shuf, empty)
    \/ \E shuf \in BOOLEAN : Reset(shuf)
    \/ Shuffle
    \/ \E n \in -1..(MaxLen + 1), strict \in BOOLEAN : Draw(n, strict)
    \/ \E args \in DealArgs, strict \in BOOLEAN : Deal(args[1], args[2], strict)

Spec == Init /\ [][Next]_vars

\* add, and draw before it
NextAdd ==
    \/ \E n \in -1..(MaxLen + 1), strict \in BOOLEAN : Draw(n, strict)
    \/ \E flat \in SeqsUpTo(SampleCards, MaxItems) \cup {drawn}, bad \in BOOLEAN,
          position \in {"top", "bottom", "random", "middle"} : Add(flat, bad, position)

SpecAdd == Init /\ [][NextAdd]_vars

\* split, of decks of up to MaxSplit cards
InitSplit == InitWith(MaxSplit)

NextSplit == \E n \in 0..(MaxSplit + 1), strict \in BOOLEAN : Split(n, strict)

SpecSplit == InitSplit /\ [][NextSplit]_vars

\* The operator +, and a call on the deck it returned
NextArith ==
    \/ \E cards \in SeqsUpTo(SampleCards, MaxOther) : OtherFromCards(cards)
    \/ DeckAdd
    \/ \E n \in 0..(MaxOther + 1) : ResultDraw(n)

SpecArith == Init /\ [][NextArith]_vars

\* The operators - and -=
NextSub ==
    \/ \E cards \in SeqsUpTo(SampleCards, MaxOther) : OtherFromCards(cards)
    \/ \E x \in Operands : DeckSub(x)
    \/ \E x \in Operands : DeckISub(x)

SpecSub == Init /\ [][NextSub]_vars

\* Access by index
NextIndex ==
    \/ \E key \in Indexes : GetItem(key)
    \/ \E key \in Indexes, card \in SampleCards, bad \in BOOLEAN :
          SetItem(key, card, bad)
    \/ \E key \in Indexes : DelItem(key)
    \/ \E key \in Indexes : Pop(key)

SpecIndex == Init /\ [][NextIndex]_vars

\* index, with a start and an end from below 0 to above the length of the deck
NextFind ==
    \E card \in SampleCards, bad \in BOOLEAN, start \in -1..MaxLen,
       end \in {<<>>} \cup {<<e>> : e \in -1..(MaxLen + 1)} :
        Index(card, bad, start, end)

SpecFind == Init /\ [][NextFind]_vars

\* copy, and a call on the deck or on its copy after it
NextCopy ==
    \/ \E deep \in BOOLEAN : Copy(deep)
    \/ \E on \in {"a", "r"}, n \in 0..MaxLen : DrawBeside(on, n)
    \/ \E on \in {"a", "r"}, card \in SampleCards : AddBeside(on, card)

SpecCopy == Init /\ [][NextCopy]_vars

\* The operators << and >>
NextShift ==
    \/ \E n \in Shifts : LShift(n)
    \/ \E n \in Shifts : RShift(n)

SpecShift == Init /\ [][NextShift]_vars

\* sort, of decks built with any of the suit orders
InitSort == InitDeck(MaxLen) /\ suit_order \in SuitOrders

NextSort == \E ascending \in BOOLEAN : Sort(ascending)

SpecSort == InitSort /\ [][NextSort]_vars

\* ------------------------------------------------------------ the claims
\* New Deck Order, top card first: A-K of hearts, A-K of clubs, K-A of diamonds,
\* K-A of spades (the docstrings of Deck.__init__ and Deck._build_cards)
NewDeckOrder ==
    [i \in 1..13 |-> Card(UP_RANKS[i], "HEARTS")]
    \o [i \in 1..13 |-> Card(UP_RANKS[i], "CLUBS")]
    \o [i \in 1..13 |-> Card(UP_RANKS[14 - i], "DIAMONDS")]
    \o [i \in 1..13 |-> Card(UP_RANKS[14 - i], "SPADES")]

\* C1: a deck built by Deck(include_jokers=False, shuffle=False, empty=False) holds
\* the 52 cards in New Deck Order, the Ace of Hearts on top; draw(1) on it returns
\* [Ace of Hearts] and leaves 51 cards.
C1_FreshDeckDraw ==
    /\ (op.name = "__init__" /\ ~op.jokers /\ ~op.shuffle /\ ~op.empty)
        => /\ err = "none"
           /\ a # 0
           /\ TopToBottom(SelfValue.cards) = NewDeckOrder
    /\ (op.name = "draw" /\ op.fresh /\ op.n = 1)
        => /\ err = "none"
           /\ drawn = <<Card("A", "HEARTS")>>
           /\ Len(SelfValue.cards) = 51

\* C2: a strict draw of more cards than the deck holds, and a strict deal that needs
\* more cards than it holds, fail and leave the deck as it was; so does a strict
\* draw(1) on an empty deck.
C2_StrictFailureAtomic ==
    /\ (op.name = "draw" /\ op.strict /\ op.n > Len(pre))
        => /\ err # "none"
           /\ (a = 0) = preNone
           /\ SelfValue.cards = pre
    /\ (op.name = "deal" /\ op.strict /\ op.n * op.m > Len(pre))
        => /\ err # "none"
           /\ (a = 0) = preNone
           /\ SelfValue.cards = pre
    /\ (op.name = "draw" /\ op.strict /\ op.n = 1 /\ ~preNone /\ pre = <<>>)
        => err = "ValueError"

\* A strict draw of more cards than a deck of some cards holds has failed.
C2_Witness ==
    /\ op.name = "draw" /\ op.strict
    /\ ~preNone /\ pre # <<>> /\ op.n > Len(pre)
    /\ err = "ValueError"

\* C3: draw(k, strict=False) with k >= 0 never fails, on any deck; it returns the
\* top min(k, len) cards, the top one first, and leaves the rest in their order.
C3_NonStrictDraw ==
    (op.name = "draw" /\ ~op.strict /\ op.n >= 0)
        => LET top == TopToBottom(pre)
               k == Min(op.n, Len(pre))
           IN  /\ err = "none"
               /\ drawn = SubSeq(top, 1, k)
               /\ TopToBottom(SelfValue.cards) = SubSeq(top, k + 1, Len(top))
               /\ Len(SelfValue.cards) = Len(pre) - k

\* The same of the decks whose _cards is a list: there the claim holds.
C3_OnLists == preNone \/ C3_NonStrictDraw

\* A draw without strict that asked for more than the deck of some cards held
C3_OnListsWitness ==
    /\ op.name = "draw" /\ ~op.strict
    /\ ~preNone /\ pre # <<>> /\ op.n > Len(pre)
    /\ drawn = TopToBottom(pre)

RECURSIVE SumLen(_)
SumLen(hs) == IF hs = <<>> THEN 0 ELSE Len(Head(hs)) + SumLen(Tail(hs))

\* C4: a deal that returns deals round-robin from the top: the i-th card taken
\* (i from 0) is the next card of hand i mod num_hands; no hand gets more than
\* cards_each; min(num_hands * cards_each, len) cards are taken, and the hands hold
\* those cards and no others; no hand is longer than one before it; the deck keeps
\* the rest.  A strict deal(4, 13) of a 52-card deck returns four hands of 13 and
\* leaves the deck empty.
C4_DealRoundRobin ==
    /\ (op.name = "deal" /\ err = "none" /\ op.n >= 1 /\ op.m >= 0)
        => LET top == TopToBottom(pre)
               taken == Min(op.n * op.m, Len(pre))
           IN  /\ Len(hands) = op.n
               /\ \A i \in 0..(taken - 1) :
                      LET hand == hands[(i % op.n) + 1]
                          at == (i \div op.n) + 1
                      IN  Len(hand) >= at /\ hand[at] = top[i + 1]
               /\ \A j \in 1..op.n : Len(hands[j]) <= op.m
               /\ SumLen(hands) = taken
               /\ \A j, k \in 1..op.n : j < k => Len(hands[j]) >= Len(hands[k])
               /\ SelfValue.cards = SubSeq(pre, 1, Len(pre) - taken)
    /\ (op.name = "deal" /\ op.strict /\ op.n = 4 /\ op.m = 13 /\ Len(pre) = 52)
        => /\ err = "none"
           /\ \A j \in 1..4 : Len(hands[j]) = 13
           /\ SelfValue.cards = <<>>

\* A deal without strict that ran out in its second round: hand 1 got two cards and
\* hand 2 one.
C4_Witness ==
    /\ op.name = "deal" /\ err = "none" /\ ~op.strict
    /\ op.n = 2 /\ op.m = 2 /\ Len(pre) = 3
    /\ Len(hands[1]) = 2 /\ Len(hands[2]) = 1

\* A strict deal(4, 13) of a 52-card deck has returned.
C4_FullDeal ==
    /\ op.name = "deal" /\ err = "none" /\ op.strict
    /\ op.n = 4 /\ op.m = 13 /\ Len(pre) = 52

\* C5: a.add(*items, position='bottom') with k flattened cards, on a deck holding a
\* list, returns; afterwards the deck reads, top to bottom, as it read before
\* followed by the k cards in the order given, so it is k cards longer and the top
\* card of a deck that was not empty is the one it was.
C5_AddBottom ==
    (op.name = "add" /\ op.position = "bottom" /\ ~op.bad /\ ~preNone) =>
        /\ err = "none"
        /\ TopToBottom(SelfValue.cards) = TopToBottom(pre) \o op.items
        /\ Len(SelfValue.cards) = Len(pre) + Len(op.items)
        /\ pre # <<>> => Head(TopToBottom(SelfValue.cards)) = Head(TopToBottom(pre))

\* C5: cards were added at the bottom of a deck that held cards
C5_Witness ==
    /\ op.name = "add" /\ op.position = "bottom" /\ ~op.bad /\ ~preNone
    /\ err = "none"
    /\ op.items # <<>>
    /\ pre # <<>>

\* A call a.add(drawn, position='top') that follows a drawn = a.draw(n) which
\* returned, with 0 <= n <= len(a) before the draw
DrawThenAddTop ==
    /\ op.name = "add" /\ op.position = "top" /\ ~op.bad
    /\ op.restores
    /\ 0 <= op.n /\ op.n <= Len(op.orig)

\* C6 as stated: drawing n cards, 0 <= n <= len(D), and adding the drawn list with
\* position='top' leaves the deck with the top-to-bottom sequence it had before the
\* draw.
C6_DrawThenAddTopRestores ==
    DrawThenAddTop =>
        /\ err = "none"
        /\ TopToBottom(SelfValue.cards) = TopToBottom(op.orig)

\* C6: when drawn = a.draw(n) returns, with 0 <= n <= len(a), and
\* a.add(drawn, position='top') follows, the add returns and the deck holds the
\* cards it held before the draw with its top n cards in reversed order (the card
\* drawn last is on top) above the others, which are as they were; the deck reads
\* as before the draw exactly when the n drawn cards read the same in both
\* directions, as they do when n <= 1.
C6_DrawThenAddTopReverses ==
    DrawThenAddTop =>
        LET top == TopToBottom(op.orig)
            n == op.n
        IN  /\ err = "none"
            /\ TopToBottom(SelfValue.cards)
                   = Reverse(SubSeq(top, 1, n)) \o SubSeq(top, n + 1, Len(top))
            /\ (SelfValue.cards = op.orig)
                   <=> (SubSeq(top, 1, n) = Reverse(SubSeq(top, 1, n)))
            /\ n <= 1 => SelfValue.cards = op.orig

\* C6: two different cards were drawn and added back on top
C6_Witness ==
    /\ DrawThenAddTop
    /\ err = "none"
    /\ op.n = 2
    /\ SelfValue.cards # op.orig

\* What C7 says of r = a + b, and of r.draw(len(a)) after it
DeckAddHolds ==
    /\ op.name = "__add__" =>
          /\ err = "none"
          /\ r # 0 /\ r # a /\ r # b
          /\ TopToBottom(heap[r]) = TopToBottom(pre) \o TopToBottom(op.other)
          /\ SelfValue.cards = pre /\ (a = 0) = preNone
          /\ OtherCards = op.other
    /\ (op.name = "r.draw" /\ op.n = Len(pre)) =>
          /\ err = "none"
          /\ drawn = TopToBottom(pre)
          /\ TopToBottom(heap[r]) = TopToBottom(op.other)
    /\ op.name = "r.draw" =>
          /\ SelfValue.cards = pre /\ (a = 0) = preNone
          /\ OtherCards = op.other

\* C7: for all decks a and b, a + b returns a new deck that reads, top to bottom,
\* as a followed by b, so that (a + b).draw(len(a)) returns a's top-to-bottom
\* sequence; a and b are left as they were, by the operator and by a later draw
\* from the deck it returned.
C7_DeckAdd == DeckAddHolds

\* C7 of a deck a whose _cards is a list
C7_OnLists == preNone \/ DeckAddHolds

\* C7: len(a) cards were drawn from the sum of two decks that held cards
C7_OnListsWitness ==
    /\ op.name = "r.draw" /\ op.n = Len(pre)
    /\ ~preNone
    /\ Len(pre) >= 2
    /\ op.other # <<>>
    /\ drawn # <<>>

\* A call a.split(n, strict) on a deck holding total cards, 2 <= n <= total
SplitOf(strict) ==
    /\ op.name = "split" /\ op.strict = strict
    /\ ~preNone
    /\ 2 <= op.n /\ op.n <= Len(pre)

\* The sub-decks returned, each read top to bottom, in list order
SubDecksTopToBottom == [i \in 1..Len(subdecks) |-> TopToBottom(subdecks[i])]

\* The sub-decks returned, each read top to bottom, the last of the list first
SubDecksLastFirst ==
    [i \in 1..Len(subdecks) |-> TopToBottom(subdecks[Len(subdecks) + 1 - i])]

\* C8 as stated: split(n, strict=False), 2 <= n <= total, returns n sub-decks whose
\* top-to-bottom sequences, concatenated in list order, are the deck's
\* top-to-bottom sequence; the first (total mod n) of them have floor(total/n) + 1
\* cards and the others floor(total/n).
C8_SplitFirstGetExtra ==
    SplitOf(FALSE) =>
        LET total == Len(pre)
            n == op.n
        IN  /\ err = "none"
            /\ Len(subdecks) = n
            /\ Flatten(SubDecksTopToBottom) = TopToBottom(pre)
            /\ \A i \in 1..n :
                   Len(subdecks[i]) = (total \div n) + (IF i <= total % n THEN 1 ELSE 0)

\* C8: split(n, strict=False) of a deck holding total cards, 2 <= n <= total,
\* returns n sub-decks that are contiguous groups of the deck cut from the bottom
\* up: the first sub-deck of the list is the bottom group and the last one the top
\* group, so the sub-decks' top-to-bottom sequences concatenated from the last of
\* the list to the first give the deck's top-to-bottom sequence.  Each sub-deck has
\* floor(total/n) or floor(total/n) + 1 cards, and exactly (total mod n) of them,
\* not always the first ones, have the extra card.  The deck is left as it was.
C8_SplitFromBottom ==
    SplitOf(FALSE) =>
        LET total == Len(pre)
            n == op.n
            sizes == [i \in 1..Len(subdecks) |-> Len(subdecks[i])]
        IN  /\ err = "none"
            /\ Len(subdecks) = n
            /\ Flatten(SubDecksLastFirst) = TopToBottom(pre)
            /\ \A i \in 1..n : sizes[i] \in {total \div n, (total \div n) + 1}
            /\ Cardinality({i \in 1..n : sizes[i] = (total \div n) + 1}) = total % n
            /\ SelfValue.cards = pre

\* C8: five cards were split in two, and the first sub-deck is the smaller one, the
\* bottom two cards
C8_Witness ==
    /\ SplitOf(FALSE)
    /\ err = "none"
    /\ Len(pre) = 5 /\ op.n = 2
    /\ Len(subdecks[1]) < Len(subdecks[2])
    /\ Flatten(SubDecksTopToBottom) # TopToBottom(pre)

\* split raises ValueError for n < 2 and for n > total
SplitRejects ==
    (op.name = "split" /\ ~preNone /\ (op.n < 2 \/ op.n > Len(pre))) =>
        /\ err = "ValueError"
        /\ subdecks = <<>>

\* C9 as stated: split(n, strict=True), 2 <= n <= total, returns n sub-decks of
\* floor(total/n) cards each, contiguous groups from the top of the deck down, the
\* (total mod n) cards at the bottom being left out; split raises for n < 2 and
\* for n > total.
C9_StrictSplitDropsBottom ==
    /\ SplitOf(TRUE) =>
          LET total == Len(pre)
              n == op.n
              top == TopToBottom(pre)
          IN  /\ err = "none"
              /\ Len(subdecks) = n
              /\ \A i \in 1..n : Len(subdecks[i]) = total \div n
              /\ Flatten(SubDecksTopToBottom) = SubSeq(top, 1, n * (total \div n))
    /\ SplitRejects

\* C9: split(n, strict=True) of a deck holding total cards, 2 <= n <= total,
\* returns n sub-decks of floor(total/n) cards each, so that the sizes sum to at
\* most total and fall short of it by fewer than n.  The sub-decks are contiguous
\* groups cut from the bottom of the deck up, the first of the list the bottom
\* group, and the cards left out are the (total mod n) cards on top of the deck.
\* The deck is left as it was.  On a deck holding total cards split raises
\* ValueError for n < 2 and for n > total.
C9_StrictSplitDropsTop ==
    /\ SplitOf(TRUE) =>
          LET total == Len(pre)
              n == op.n
              top == TopToBottom(pre)
              sum == Len(Flatten(SubDecksTopToBottom))
          IN  /\ err = "none"
              /\ Len(subdecks) = n
              /\ \A i \in 1..n : Len(subdecks[i]) = total \div n
              /\ sum <= total /\ total - sum < n
              /\ Flatten(SubDecksLastFirst) = SubSeq(top, (total % n) + 1, total)
              /\ SelfValue.cards = pre
    /\ SplitRejects

\* C9: a strict split left out the top card of five
C9_Witness ==
    /\ SplitOf(TRUE)
    /\ err = "none"
    /\ Len(pre) = 5 /\ op.n = 2
    /\ Len(Flatten(SubDecksTopToBottom)) = 4
    /\ Head(TopToBottom(pre)) # Head(TopToBottom(subdecks[2]))

\* The card c is to be removed by the operand of the last - or -=: it equals a Card
\* listed (or a card of the deck given), or has a Rank or a Suit listed.
Listed(c) ==
    \E i \in DOMAIN op.x :
        \/ op.x[i] = CardItem(c)
        \/ op.x[i] = RankItem(c.rank)
        \/ op.x[i] = SuitItem(c.suit)

\* The cards of the sequence l that the operand leaves, in their order
Unlisted(l) == LET keep(c) == ~Listed(c) IN SelectSeq(l, keep)

\* What C10 says of r = a - x and of a -= x, for a deck a holding a list
DeckSubHolds ==
    /\ op.name = "__sub__" =>
          /\ err = "none"
          /\ r # 0 /\ r # a /\ r # b
          /\ TopToBottom(heap[r]) = Unlisted(TopToBottom(pre))
          /\ SelfValue.cards = pre
    /\ op.name = "__isub__" =>
          /\ err = "none"
          /\ TopToBottom(SelfValue.cards) = Unlisted(TopToBottom(pre))

\* C10: for a deck a and an x that is a Card, a Rank, a Suit, a Deck or a list of
\* Cards, Ranks and Suits, a - x returns a new deck holding, in a's top-to-bottom
\* order, the cards of a that neither equal a Card listed (or a card of the deck
\* x) nor have a Rank or a Suit listed, and leaves a as it was; a -= x removes the
\* same cards from a in place.
C10_DeckSub == preNone \/ DeckSubHolds

\* C10 of the operands the code handles: a Card or a list for -, and a Card, a
\* Rank, a Suit or a list for -=
C10_OnHandled ==
    \/ preNone
    \/ op.name = "__sub__" /\ op.kind \notin {"Card", "list"}
    \/ op.name = "__isub__" /\ op.kind = "Deck"
    \/ DeckSubHolds

\* C10: a - x removed a card for a list x, and a -= x one for a Rank x
C10_OnHandledWitness ==
    /\ ~preNone /\ err = "none"
    /\ \/ op.name = "__sub__" /\ op.kind = "list" /\ Len(heap[r]) < Len(pre)
       \/ op.name = "__isub__" /\ op.kind = "Rank" /\ Len(SelfValue.cards) < Len(pre)

\* An access by index to a deck holding a list, deck[i] = card with a Card
IndexAccess ==
    /\ op.name \in {"__getitem__", "__setitem__", "__delitem__", "pop"}
    /\ ~preNone
    /\ ~op.bad

\* The place, counted from 1 at the top, that the index i of an access names in a
\* deck of L cards: i + 1 for 0 <= i < L and L + i + 1 for -L <= i < 0
Place(L, i) == IF i >= 0 THEN i + 1 ELSE L + i + 1

\* What C11 says of an index in range: the call returns, deck[i] and pop(i) give
\* the card at that place, and pop takes it out of the deck
InRangeHolds ==
    (IndexAccess /\ -Len(pre) <= op.index /\ op.index < Len(pre)) =>
        LET top == TopToBottom(pre)
            at == Place(Len(pre), op.index)
        IN  /\ err = "none"
            /\ op.name \in {"__getitem__", "pop"} => drawn = <<top[at]>>
            /\ op.name = "__getitem__" => SelfValue.cards = pre
            /\ op.name = "pop" => TopToBottom(SelfValue.cards) = Without(top, at)

\* What C11 says of an index out of range: the call raises IndexError, returns no
\* card and leaves the deck as it was
OutOfRangeHolds ==
    (IndexAccess /\ (op.index >= Len(pre) \/ op.index < -Len(pre))) =>
        /\ err = "IndexError"
        /\ drawn = <<>>
        /\ SelfValue.cards = pre

\* C11: on a deck of L cards, deck[i] and pop(i) address the i-th card from the
\* top for 0 <= i < L and the (L+i)-th for -L <= i < 0; for every i >= L and every
\* i < -L, deck[i], deck[i] = card, del deck[i] and pop(i) raise an index error,
\* return no card and leave the deck as it was.
C11_IndexAccess == InRangeHolds /\ OutOfRangeHolds

\* C11 of the indexes in range, and of those below -L and from 2L up
C11_OnChecked ==
    /\ InRangeHolds
    /\ (op.index < -Len(pre) \/ op.index >= 2 * Len(pre)) => OutOfRangeHolds

\* C11: pop took the bottom card of three, and an index below -L was refused
C11_OnCheckedWitness ==
    /\ IndexAccess
    /\ Len(pre) = 3
    /\ \/ op.name = "pop" /\ op.index = 2 /\ err = "none" /\ Len(SelfValue.cards) = 2
       \/ op.name = "__delitem__" /\ op.index = -4 /\ err = "IndexError"

\* A call a.index(card, start, end) on a deck holding a list, with 0 <= start and
\* end None or 0 <= end <= len(a)
IndexCall ==
    /\ op.name = "index" /\ ~op.bad /\ ~preNone
    /\ 0 <= op.start
    /\ op.end # <<>> => (0 <= op.end[1] /\ op.end[1] <= Len(pre))

\* The logical indexes (top = 0) within [start, end) at which the deck has the card
Matches ==
    LET top == TopToBottom(pre)
        end == IF op.end = <<>> THEN Len(pre) ELSE op.end[1]
    IN  {i \in 0..(Len(pre) - 1) : op.start <= i /\ i < end /\ top[i + 1] = op.card}

\* The least of a set of integers that is not empty
Least(S) == CHOOSE i \in S : \A j \in S : i <= j

\* index raises ValueError when no card within [start, end) matches, and leaves
\* the deck as it was
NotFoundHolds ==
    /\ (IndexCall /\ Matches = {}) => err = "ValueError"
    /\ IndexCall => SelfValue.cards = pre

\* C12: index(card, start, end) returns the smallest logical index i (top = 0)
\* with start <= i < end and deck[i] == card, so that deck[deck.index(card)] ==
\* card and the index of the top card is 0; it raises a not-found error, the deck
\* unchanged, when no card in that range matches.
C12_IndexOf ==
    /\ (IndexCall /\ Matches # {}) =>
          /\ err = "none"
          /\ ret = Least(Matches)
          /\ getitem(SelfValue, ret).out = <<op.card>>
    /\ NotFoundHolds

\* C12 with the index returned read as an index into the internal list, bottom = 0
C12_OnInternal ==
    /\ (IndexCall /\ Matches # {}) =>
          /\ err = "none"
          /\ reverse_index(Len(pre), ret) = Least(Matches)
    /\ NotFoundHolds

\* C12: the card looked for is the second from the top of three, and further down
\* as well
C12_OnInternalWitness ==
    /\ IndexCall
    /\ err = "none"
    /\ Len(pre) = 3
    /\ Cardinality(Matches) = 2
    /\ Least(Matches) = 1

\* The copy holds a list of its own, and a draw or an add on the deck or on its
\* copy leaves the list of the other one as it was
CopyIndependent ==
    /\ (op.name = "copy" /\ ~preNone) =>
          /\ err = "none"
          /\ r # 0 /\ r # a
          /\ SelfValue.cards = pre
    /\ op.on # "" => heap[Beside(op.on)] = op.other

\* C13: copy(), deep or not, returns a new deck with the top-to-bottom sequence of
\* the original, list(d.copy()) == list(d), and the copy is independent: a later
\* draw or add on either deck leaves the sequence of the other one unchanged.
C13_Copy ==
    /\ (op.name = "copy" /\ ~preNone) =>
          /\ err = "none"
          /\ TopToBottom(heap[r]) = TopToBottom(pre)
    /\ CopyIndependent

\* C13, the independence of the copy alone
C13_Independent == CopyIndependent

\* C13: a card was drawn from the copy of a deck of two cards or more
C13_IndependentWitness ==
    /\ op.name = "draw" /\ op.on = "r"
    /\ err = "none"
    /\ Len(drawn) = 1
    /\ Len(pre) >= 2
    /\ heap[r] # heap[a]

\* How often the card c is in the list l
Count(l, c) == Cardinality({i \in DOMAIN l : l[i] = c})

\* The lists l and k hold the same cards, each as often
SameCards(l, k) == \A c \in Range(l) \cup Range(k) : Count(l, c) = Count(k, c)

\* C14: for a deck that is not empty, with top-to-bottom sequence c, and n >= 0,
\* with m = n mod len(c): a << n leaves the sequence c[m:] followed by c[:m],
\* a >> n leaves c[len-m:] followed by c[:len-m], the deck holds the same cards as
\* before, each as often, and a >> n after a << n leaves the sequence the deck had
\* before the two.
C14_Rotate ==
    /\ (op.name \in {"__lshift__", "__rshift__"} /\ Len(pre) > 0 /\ op.n >= 0) =>
          LET c == TopToBottom(pre)
              len == Len(c)
              m == op.n % len
              now == TopToBottom(SelfValue.cards)
          IN  /\ err = "none"
              /\ op.name = "__lshift__" => now = SubSeq(c, m + 1, len) \o SubSeq(c, 1, m)
              /\ op.name = "__rshift__" =>
                     now = SubSeq(c, len - m + 1, len) \o SubSeq(c, 1, len - m)
              /\ SameCards(now, c)
    /\ (op.name = "__rshift__" /\ op.restores /\ Len(op.orig) > 0 /\ op.n >= 0) =>
          /\ err = "none"
          /\ SelfValue.cards = op.orig

\* C14: a << 4 on three cards moved the top card to the bottom, and a >> 4 moved
\* it back
C14_Witness ==
    /\ op.name = "__rshift__" /\ op.restores
    /\ err = "none"
    /\ op.n = 4
    /\ Len(op.orig) = 3
    /\ pre # op.orig
    /\ Head(TopToBottom(op.orig)) = Head(pre)
    /\ SelfValue.cards = op.orig

\* C15: sort returns on a deck holding a list, whatever its suit_order (None, or
\* one that leaves out the suit of a card); after it the deck holds the same cards
\* as before, each as often; after sort(ascending=False), for all positions i < j
\* (top first) compare(deck[i], deck[j]) >= 0, and after sort(ascending=True)
\* compare(deck[i], deck[j]) <= 0; a sort(ascending=False) that follows a
\* sort(ascending=False) leaves the order as it is.
C15_SortAgrees ==
    op.name = "sort" =>
        LET now == TopToBottom(SelfValue.cards)
        IN  /\ ~preNone => err = "none"
            /\ (a = 0) = preNone
            /\ SameCards(now, TopToBottom(pre))
            /\ \A i, j \in DOMAIN now :
                   i < j => IF op.ascending
                              THEN compare(suit_order, now[i], now[j]) <= 0
                              ELSE compare(suit_order, now[i], now[j]) >= 0
            /\ op.again => SelfValue.cards = pre

\* C15: a sort put three different cards in another order, in a deck whose
\* suit_order leaves out the suit of one of them
C15_Witness ==
    /\ op.name = "sort" /\ ~op.ascending
    /\ err = "none"
    /\ suit_order = <<"SPADES">>
    /\ Len(pre) = 3
    /\ Cardinality(Range(pre)) = 3
    /\ SelfValue.cards # pre
    /\ \E i \in DOMAIN pre : pre[i].suit = "HEARTS"

\* C15: a deck was sorted twice
C15_AgainWitness ==
    /\ op.name = "sort" /\ op.again
    /\ err = "none"
    /\ Len(pre) = 3
    /\ Cardinality(Range(pre)) = 3
====
